---- MODULE Spec2Model ----
(***************************************************************************)
(* Model of utils/utils.py of sign2text: the temporal sampler              *)
(* (get_random_frames), the spatial augmentations (random_flip,            *)
(* random_crop, center_crop), the manifest builder (get_file_list,         *)
(* shuffle_data) and the video file reader (read_video).                    *)
(*                                                                         *)
(* Arrays are functions over 0..n-1, so that indices are the indices of    *)
(* the Python source.  A clip is a record [shape, px]: shape is the        *)
(* per-frame <<height, width>> (numpy keeps it even for a clip with no     *)
(* frame) and px[f][i][j] is the pixel of frame f at row i, column j (the  *)
(* channel axis is never indexed by the code and is part of the pixel).    *)
(***************************************************************************)
EXTENDS Integers, Sequences, FiniteSets, TLC

VARIABLES pc, fn, arg, loc, ret, exc, capture, frames

vars == <<pc, fn, arg, loc, ret, exc, capture, frames>>

(* ----------------------------- bounds ---------------------------------- *)
MaxFrames == 7
MaxTarget == 4
MaxFrameDim == 2
MaxDim == 4
MaxClip == 2
MaxMeta == 3
MaxStream == 3
NUM_CLASSES == 3

(* --------------------------- array helpers ------------------------------ *)
Range0(n) == 0..(n - 1)

len(a) == Cardinality(DOMAIN a)

Pix(f, i, j) == 1 + f * 10000 + i * 100 + j

NewClip(nf, h, w) ==
  [shape |-> <<h, w>>,
   px |-> [f \in Range0(nf) |-> [i \in Range0(h) |-> [j \in Range0(w) |-> Pix(f, i, j)]]]]

zerosShort(n, shape) ==
  [f \in Range0(n - 1) |-> [i \in Range0(shape[1]) |-> [j \in Range0(shape[2]) |-> 0]]]

(* np.zeros(shape=[n] + list(frames.shape[1:])) *)
zeros(n, shape) ==
  [f \in Range0(n) |-> [i \in Range0(shape[1]) |-> [j \in Range0(shape[2]) |-> 0]]]

concatenateSwapped(a, b) ==
  [k \in Range0(len(a) + len(b)) |-> IF k < len(b) THEN b[k] ELSE a[k - len(b)]]

(* np.concatenate((a, b), axis=0) *)
concatenate(a, b) ==
  [k \in Range0(len(a) + len(b)) |-> IF k < len(a) THEN a[k] ELSE b[k - len(a)]]

(* np.arange(0, stop, step) for step > 0: 0, step, 2*step, ... below stop *)
arange(stop, step) ==
  [k \in Range0((stop + step - 1) \div step) |-> k * step]

(* Python slice bound normalisation for a sequence of length n, step 1 *)
SliceBound(b, n) ==
  IF b < 0 THEN (IF b + n < 0 THEN 0 ELSE b + n) ELSE (IF b > n THEN n ELSE b)

(* a[start:stop] *)
slice(a, start, stop) ==
  LET n == len(a)
      s == SliceBound(start, n)
      e == SliceBound(stop, n)
  IN [k \in Range0(e - s) |-> a[s + k]]

(* a[::-1] *)
reversed(a) == [k \in Range0(len(a)) |-> a[len(a) - 1 - k]]

(* tf.one_hot(label, depth): all zero when label is outside 0..depth-1 *)
one_hot(label, depth) == [c \in Range0(depth) |-> IF c = label THEN 1 ELSE 0]

(* ------------------------- get_random_frames ---------------------------- *)
SamplingRateCeil(F, num_frames) == (F + num_frames - 1) \div num_frames

SamplingRate(F, num_frames) == F \div num_frames

get_random_frames(video, label, num_frames) ==
  LET onehot_label == one_hot(label, NUM_CLASSES)
      F == len(video.px)
  IN IF F < num_frames
     THEN LET zeros_array == zeros(num_frames - F, video.shape)
              padded == concatenate(video.px, zeros_array)
          IN IF len(padded) = num_frames
             THEN [exc |-> "none",
                   ret |-> [frames |-> [shape |-> video.shape, px |-> padded],
                            label |-> onehot_label]]
             ELSE [exc |-> "AssertionError", ret |-> <<>>]
     ELSE IF num_frames = 0
     THEN [exc |-> "ZeroDivisionError", ret |-> <<>>]
     ELSE LET rate == SamplingRate(F, num_frames)
              index == arange(F, rate)
              head == slice(index, 0, num_frames)
              sampled_frames == [k \in DOMAIN head |-> video.px[head[k]]]
          IN [exc |-> "none",
              ret |-> [frames |-> [shape |-> video.shape, px |-> sampled_frames],
                       label |-> onehot_label]]

(* ------------------------------ random_flip ----------------------------- *)
(* random.random() is drawn in quarters: the draw d stands for d/4 *)
RandomDraws == 0..3

mirrorRows(video) ==
  [shape |-> video.shape,
   px |-> [f \in DOMAIN video.px |-> reversed(video.px[f])]]

(* video[:, :, ::-1, :] *)
mirror(video) ==
  [shape |-> video.shape,
   px |-> [f \in DOMAIN video.px |->
             [i \in DOMAIN video.px[f] |-> reversed(video.px[f][i])]]]

random_flip(video, draw) ==
  IF 2 * draw < 2 THEN mirror(video) ELSE video

(* ------------------------- random_crop, center_crop --------------------- *)
SliceLen(n, start, stop) ==
  LET s == SliceBound(start, n)
      e == SliceBound(stop, n)
  IN IF e > s THEN e - s ELSE 0

(* video[:, offset_h:(offset_h + th), offset_w:(offset_w + tw), :] *)
window(video, offset_h, th, offset_w, tw) ==
  [shape |-> <<SliceLen(video.shape[1], offset_h, offset_h + th),
               SliceLen(video.shape[2], offset_w, offset_w + tw)>>,
   px |-> [f \in DOMAIN video.px |->
             LET rows == slice(video.px[f], offset_h, offset_h + th)
             IN [i \in DOMAIN rows |-> slice(rows[i], offset_w, offset_w + tw)]]]

randintPastEnd(a, b) == a..(b + 1)

(* the values random.randint(a, b) can return; none when b < a (ValueError) *)
randint(a, b) == a..b

(* rh, rw: the values the two random.randint calls return when they are made *)
random_crop(video, label, target_size, draw, rh, rw) ==
  LET h == video.shape[1]
      w == video.shape[2]
      th == target_size[1]
      tw == target_size[2]
      flipped == random_flip(video, draw)
  IN IF (h = th) /\ (w = tw)
     THEN [exc |-> "none", ret |-> <<flipped, label>>,
           loc |-> [flipped |-> flipped]]
     ELSE IF (h # th /\ randint(0, h - th) = {}) \/ (w # tw /\ randint(0, w - tw) = {})
     THEN [exc |-> "ValueError", ret |-> <<>>, loc |-> [flipped |-> flipped]]
     ELSE LET offset_h == IF h # th THEN rh ELSE 0
              offset_w == IF w # tw THEN rw ELSE 0
          IN [exc |-> "none",
              ret |-> <<window(flipped, offset_h, th, offset_w, tw), label>>,
              loc |-> [flipped |-> flipped, offset_h |-> offset_h, offset_w |-> offset_w]]

IntHalfUp(d) == (d + 1) \div 2

(* int(d / 2): float division, then truncation toward zero *)
IntHalf(d) == IF d >= 0 THEN d \div 2 ELSE -((-d) \div 2)

center_crop(video, label, target_size) ==
  LET h == video.shape[1]
      w == video.shape[2]
      th == target_size[1]
      tw == target_size[2]
      offset_h == IntHalf(h - th)
      offset_w == IntHalf(w - tw)
  IN [exc |-> "none",
      ret |-> <<window(video, offset_h, th, offset_w, tw), label>>,
      loc |-> [offset_h |-> offset_h, offset_w |-> offset_w]]

(* ----------------------- shuffle_data, get_file_list -------------------- *)
(* the orders random.shuffle can leave a list of n items in *)
Shuffles(n) ==
  {p \in [Range0(n) -> Range0(n)] : \A i, j \in Range0(n) : i # j => p[i] # p[j]}

Min(a, b) == IF a < b THEN a ELSE b

shuffle_data(data, label, perm) ==
  LET zipped == [k \in Range0(Min(len(data), len(label))) |-> <<data[k], label[k]>>]
      dataset == [k \in DOMAIN zipped |-> zipped[perm[k]]]
  IN IF len(dataset) = 0
     THEN [exc |-> "ValueError", ret |-> <<>>]
     ELSE [exc |-> "none",
           ret |-> << [k \in DOMAIN dataset |-> dataset[k][1]],
                      [k \in DOMAIN dataset |-> dataset[k][2]] >>]

(* os.path.join(file_path, '{}{}'.format(video_id, file_type)) *)
FilePath(file_path, video_id, file_type) ==
  [dir |-> file_path, name |-> <<video_id, file_type>>]

get_file_list(file_path, meta_file, file_type, perm) ==
  LET data == [k \in DOMAIN meta_file |->
                 FilePath(file_path, meta_file[k].video_id, file_type)]
      label == [k \in DOMAIN meta_file |-> meta_file[k].label]
  IN IF len(data) # len(label)
     THEN [exc |-> "AssertionError: data and label size mismatch", ret |-> <<>>]
     ELSE LET s == shuffle_data(data, label, perm)
          IN IF s.exc # "none"
             THEN s
             ELSE [exc |-> "none",
                   ret |-> s.ret]

(* -------------------------------- read_video ---------------------------- *)
(* cv2.resize(frame, dim) rejects a size with a non-positive component *)
ResizeFails(dim) == dim[1] <= 0 \/ dim[2] <= 0

resize(frame, dim) == [img |-> frame.img, size |-> dim]

asarrayReversed(list) == [k \in Range0(Len(list)) |-> list[Len(list) - k]]

(* np.asarray(frames): the list as an array indexed from 0 *)
asarray(list) == [k \in Range0(Len(list)) |-> list[k + 1]]

isOpened(cap) == cap.opened /\ ~cap.released

release(cap) == [cap EXCEPT !.released = TRUE]

(* ------------------------------- the calls ------------------------------ *)
FrameCounts == (0..MaxFrames) \cup {100}
Targets == (0..MaxTarget) \cup {20}
NoCapture == [opened |-> FALSE, released |-> FALSE, pos |-> 0, stream |-> <<>>, cause |-> "none"]

Idle == pc = "idle"

GetRandomFrames ==
  /\ Idle
  /\ \E F \in FrameCounts, h \in 1..MaxFrameDim, w \in 1..MaxFrameDim,
        label \in 0..NUM_CLASSES, N \in Targets :
       /\ (F = 100 \/ N = 20) => (h = 1 /\ w = 1 /\ label = 0)
       /\ LET video == NewClip(F, h, w)
              r == get_random_frames(video, label, N)
          IN /\ fn' = "get_random_frames"
             /\ arg' = [frames |-> video, label |-> label, num_frames |-> N]
             /\ loc' = <<>>
             /\ ret' = r.ret
             /\ exc' = r.exc
             /\ pc' = IF r.exc = "none" THEN "returned" ELSE "raised"
  /\ capture' = NoCapture
  /\ frames' = <<>>

CropDims == (1..MaxDim) \cup {10}
CropTargets == 0..(MaxDim + 1)
Labels == 0..(NUM_CLASSES - 1)

(* what a call of random.randint(0, margin) returns; 0 stands in when the
   call is not made or raises *)
RandChoices(margin) ==
  IF margin # 0 /\ randint(0, margin) # {} THEN randint(0, margin) ELSE {0}

RandomCrop ==
  /\ Idle
  /\ \E nf \in 0..MaxClip, h \in 1..MaxDim, w \in 1..MaxDim,
        th \in CropTargets, tw \in CropTargets, label \in Labels,
        draw \in RandomDraws :
       \E rh \in RandChoices(h - th), rw \in RandChoices(w - tw) :
         LET video == NewClip(nf, h, w)
             r == random_crop(video, label, <<th, tw>>, draw, rh, rw)
         IN /\ fn' = "random_crop"
            /\ arg' = [video |-> video, label |-> label, target_size |-> <<th, tw>>]
            /\ loc' = r.loc
            /\ ret' = r.ret
            /\ exc' = r.exc
            /\ pc' = IF r.exc = "none" THEN "returned" ELSE "raised"
  /\ capture' = NoCapture
  /\ frames' = <<>>

CenterCrop ==
  /\ Idle
  /\ \E nf \in 0..MaxClip, h \in CropDims, w \in CropDims,
        th \in CropTargets, tw \in CropTargets, label \in Labels :
       /\ (h = 10 \/ w = 10) => (h = w /\ nf = 1 /\ label = 0)
       /\ LET video == NewClip(nf, h, w)
              r == center_crop(video, label, <<th, tw>>)
          IN /\ fn' = "center_crop"
             /\ arg' = [video |-> video, label |-> label, target_size |-> <<th, tw>>]
             /\ loc' = r.loc
             /\ ret' = r.ret
             /\ exc' = r.exc
             /\ pc' = "returned"
  /\ capture' = NoCapture
  /\ frames' = <<>>

VideoIds == {"a", "b"}
MetaEntries == [video_id : VideoIds, label : Labels]
MetaFiles == UNION {[Range0(n) -> MetaEntries] : n \in 0..MaxMeta}

GetFileList ==
  /\ Idle
  /\ \E meta_file \in MetaFiles :
       \E perm \in Shuffles(len(meta_file)) :
         LET r == get_file_list("dir", meta_file, ".tfrecords", perm)
         IN /\ fn' = "get_file_list"
            /\ arg' = [file_path |-> "dir", meta_file |-> meta_file,
                       file_type |-> ".tfrecords"]
            /\ loc' = [perm |-> perm]
            /\ ret' = r.ret
            /\ exc' = r.exc
            /\ pc' = IF r.exc = "none" THEN "returned" ELSE "raised"
  /\ capture' = NoCapture
  /\ frames' = <<>>

(* a decoded frame: its picture and its <<height, width>> *)
RawFrames == [img : {1, 2}, size : {<<3, 3>>}]
Streams == UNION {[1..n -> RawFrames] : n \in 0..MaxStream}
(* dim: <<>> stands for None *)
Dims == {<<>>, <<2, 2>>, <<0, 2>>}

(* capture = cv2.VideoCapture(video_path); frames = [] *)
ReadVideoOpen ==
  /\ Idle
  /\ \E opened \in BOOLEAN, stream \in Streams, cause \in {"eos", "error"}, dim \in Dims :
       /\ ~opened => (stream = <<>> /\ cause = "error")
       /\ capture' = [opened |-> opened, released |-> FALSE, pos |-> 0,
                      stream |-> stream, cause |-> cause]
       /\ arg' = [dim |-> dim]
  /\ fn' = "read_video"
  /\ frames' = <<>>
  /\ loc' = [success |-> TRUE]
  /\ pc' = "rv_loop"
  /\ UNCHANGED <<ret, exc>>

(* one pass of the while loop with capture.isOpened() true *)
ReadVideoIter ==
  /\ pc = "rv_loop"
  /\ isOpened(capture)
  /\ LET success == capture.pos < Len(capture.stream)
     IN IF ~success
        THEN (* break; capture.release(); return np.asarray(frames) *)
             /\ loc' = [success |-> FALSE]
             /\ capture' = release(capture)
             /\ ret' = asarray(frames)
             /\ pc' = "returned"
             /\ UNCHANGED <<frames, exc>>
        ELSE LET frame == capture.stream[capture.pos + 1]
             IN /\ loc' = [success |-> TRUE]
                /\ IF arg.dim # <<>> /\ ResizeFails(arg.dim)
                   THEN /\ capture' = [capture EXCEPT !.pos = @ + 1]
                        /\ exc' = "cv2.error"
                        /\ pc' = "raised"
                        /\ UNCHANGED <<frames, ret>>
                   ELSE /\ capture' = [capture EXCEPT !.pos = @ + 1]
                        /\ frames' = Append(frames,
                                            IF arg.dim # <<>> THEN resize(frame, arg.dim)
                                            ELSE frame)
                        /\ UNCHANGED <<pc, ret, exc>>
  /\ UNCHANGED <<fn, arg>>

(* the while condition is false: capture.release(); return np.asarray(frames) *)
ReadVideoExit ==
  /\ pc = "rv_loop"
  /\ ~isOpened(capture)
  /\ capture' = release(capture)
  /\ ret' = asarray(frames)
  /\ pc' = "returned"
  /\ UNCHANGED <<fn, arg, loc, exc, frames>>

Init ==
  /\ pc = "idle"
  /\ fn = "none"
  /\ arg = <<>>
  /\ loc = <<>>
  /\ ret = <<>>
  /\ exc = "none"
  /\ capture = NoCapture
  /\ frames = <<>>

Next ==
  \/ GetRandomFrames
  \/ RandomCrop
  \/ CenterCrop
  \/ GetFileList
  \/ ReadVideoOpen
  \/ ReadVideoIter
  \/ ReadVideoExit

Spec == Init /\ [][Next]_vars

(* ------------------------------ properties ------------------------------ *)
Called(f) == fn = f /\ pc # "idle"

(* C1: for every frame count F >= 0 and every target N >= 1,
   get_random_frames returns, without raising, a frame array of length
   exactly N, in the padding branch (F < N) and in the stride branch. *)
C1_OutputLengthIsN ==
  (Called("get_random_frames") /\ arg.num_frames >= 1) =>
    /\ pc = "returned"
    /\ exc = "none"
    /\ DOMAIN ret.frames.px = Range0(arg.num_frames)
    /\ len(ret.frames.px) = arg.num_frames

C1_Witness ==
  /\ Called("get_random_frames")
  /\ pc = "returned"
  /\ arg.num_frames = 3
  /\ len(arg.frames.px) = 7
  /\ len(ret.frames.px) = 3

(* C2: when F >= N >= 1 the result is exactly the input frames at indices
   0, stride, ..., (N-1)*stride with stride = floor(F / N), in that order;
   output[0] is input[0] and every selected index is below F. *)
C2_StrideSelection ==
  (Called("get_random_frames") /\ arg.num_frames >= 1
     /\ len(arg.frames.px) >= arg.num_frames) =>
    LET F == len(arg.frames.px)
        N == arg.num_frames
        stride == F \div N
    IN /\ exc = "none"
       /\ DOMAIN ret.frames.px = Range0(N)
       /\ \A k \in Range0(N) :
            /\ k * stride < F
            /\ ret.frames.px[k] = arg.frames.px[k * stride]
       /\ ret.frames.px[0] = arg.frames.px[0]

C2_Witness ==
  /\ Called("get_random_frames")
  /\ pc = "returned"
  /\ len(arg.frames.px) = 100
  /\ arg.num_frames = 20
  /\ \A k \in Range0(20) : ret.frames.px[k] = arg.frames.px[5 * k]
  /\ ret.frames.px[19] = arg.frames.px[95]

(* C3: when F < N the first F frames of the result are the input frames in
   their original order and the frames at indices F..N-1 are all-zero
   frames of the input's per-frame shape. *)
C3_ZeroPadding ==
  (Called("get_random_frames") /\ len(arg.frames.px) < arg.num_frames) =>
    LET F == len(arg.frames.px)
        N == arg.num_frames
        h == arg.frames.shape[1]
        w == arg.frames.shape[2]
    IN /\ exc = "none"
       /\ DOMAIN ret.frames.px = Range0(N)
       /\ \A k \in Range0(F) : ret.frames.px[k] = arg.frames.px[k]
       /\ \A k \in F..(N - 1) :
            /\ DOMAIN ret.frames.px[k] = Range0(h)
            /\ \A i \in Range0(h) :
                 /\ DOMAIN ret.frames.px[k][i] = Range0(w)
                 /\ \A j \in Range0(w) : ret.frames.px[k][i][j] = 0

C3_Witness ==
  /\ Called("get_random_frames")
  /\ pc = "returned"
  /\ len(arg.frames.px) = 5
  /\ arg.num_frames = 20
  /\ ret.frames.px[4] = arg.frames.px[4]
  /\ ret.frames.px[5] # arg.frames.px[4]
  /\ ret.frames.px[19][0][0] = 0

(* the number of positions of the parallel sequences paths, labels that
   hold the pair p *)
Occurrences(paths, labels, p) ==
  Cardinality({k \in DOMAIN paths : <<paths[k], labels[k]>> = p})

(* C4: for every metadata array, of any length, get_file_list returns two
   sequences of the metadata's length whose (path, label) pairs, position
   by position, are as a multiset the (path built from video_id, label)
   pairs of the metadata. *)
C4_ManifestPairsPreserved ==
  Called("get_file_list") =>
    LET meta == arg.meta_file
        paths == [k \in DOMAIN meta |->
                    [dir |-> arg.file_path,
                     name |-> <<meta[k].video_id, arg.file_type>>]]
        labels == [k \in DOMAIN meta |-> meta[k].label]
    IN /\ pc = "returned"
       /\ exc = "none"
       /\ len(ret[1]) = len(meta)
       /\ len(ret[2]) = len(meta)
       /\ \A k \in DOMAIN meta :
            Occurrences(ret[1], ret[2], <<paths[k], labels[k]>>) =
              Occurrences(paths, labels, <<paths[k], labels[k]>>)

(* C5 as stated: center_crop uses offset = floor((dimension - target) / 2)
   on each axis for every h, w, th, tw. *)
C5_FloorOffsets ==
  Called("center_crop") =>
    /\ loc.offset_h = (arg.video.shape[1] - arg.target_size[1]) \div 2
    /\ loc.offset_w = (arg.video.shape[2] - arg.target_size[2]) \div 2

(* o is d / 2 rounded toward zero *)
IsHalfTowardZero(o, d) ==
  IF d >= 0 THEN 2 * o \in {d, d - 1} ELSE 2 * o \in {d, d + 1}

(* C5 amended: center_crop uses offset = (dimension - target) / 2 rounded
   toward zero on each axis for every h, w, th, tw, which is the floor
   whenever the target does not exceed the dimension; with th <= h and
   tw <= w the result is, for every frame, the th x tw window at those
   offsets, and the label is passed through unchanged. *)
C5_TruncatedOffsets ==
  Called("center_crop") =>
    LET h == arg.video.shape[1]
        w == arg.video.shape[2]
        th == arg.target_size[1]
        tw == arg.target_size[2]
        oh == loc.offset_h
        ow == loc.offset_w
    IN /\ pc = "returned"
       /\ IsHalfTowardZero(oh, h - th)
       /\ IsHalfTowardZero(ow, w - tw)
       /\ (th <= h) => oh = (h - th) \div 2
       /\ (tw <= w) => ow = (w - tw) \div 2
       /\ ret[2] = arg.label
       /\ DOMAIN ret[1].px = DOMAIN arg.video.px
       /\ (th <= h /\ tw <= w) =>
            /\ ret[1].shape = <<th, tw>>
            /\ \A f \in DOMAIN arg.video.px :
                 /\ DOMAIN ret[1].px[f] = Range0(th)
                 /\ \A i \in Range0(th) :
                      /\ DOMAIN ret[1].px[f][i] = Range0(tw)
                      /\ \A j \in Range0(tw) :
                           ret[1].px[f][i][j] = arg.video.px[f][oh + i][ow + j]

C5_Witness ==
  /\ Called("center_crop")
  /\ arg.video.shape = <<10, 10>>
  /\ arg.target_size = <<4, 4>>
  /\ loc.offset_h = 3
  /\ loc.offset_w = 3
  /\ ret[1].px[0][0][0] = arg.video.px[0][3][3]
  /\ ret[1].px[0][3][3] = arg.video.px[0][6][6]

(* C6: no execution of read_video ends, by returning or by raising, with
   the capture handle still held. *)
C6_HandleReleasedOnEveryExit ==
  (Called("read_video") /\ pc \in {"returned", "raised"}) => capture.released

(* the frame read_video keeps for a decoded frame *)
Kept(frame, dim) == IF dim = <<>> THEN frame ELSE [img |-> frame.img, size |-> dim]

(* C7: when the open fails, or a read fails after k frames were read
   successfully, read_video raises nothing and returns exactly those k
   frames in reading order, whatever made the read fail. *)
C7_PartialResultOnFailure ==
  (Called("read_video") /\ pc # "rv_loop"
     /\ (~capture.opened \/ ~loc.success)) =>
    /\ pc = "returned"
    /\ exc = "none"
    /\ capture.pos = Len(capture.stream)
    /\ DOMAIN ret = Range0(capture.pos)
    /\ \A k \in Range0(capture.pos) : ret[k] = Kept(capture.stream[k + 1], arg.dim)

C7_Witness ==
  /\ Called("read_video")
  /\ pc = "returned"
  /\ capture.cause = "error"
  /\ ~loc.success
  /\ capture.pos = 2
  /\ len(ret) = 2
  /\ ret[0] # ret[1]

(* C8: with th <= h, tw <= w and (th, tw) # (h, w), random_crop picks
   offset_h in 0..(h - th) and offset_w in 0..(w - tw) (0 on an axis that
   needs no cropping), returns for every frame the th x tw window at that
   one offset, lying inside the (possibly mirrored) frame, and returns the
   label unchanged. *)
C8_RandomCropWindow ==
  (Called("random_crop")
     /\ arg.target_size[1] <= arg.video.shape[1]
     /\ arg.target_size[2] <= arg.video.shape[2]
     /\ arg.target_size # arg.video.shape) =>
    LET h == arg.video.shape[1]
        w == arg.video.shape[2]
        th == arg.target_size[1]
        tw == arg.target_size[2]
    IN /\ pc = "returned"
       /\ exc = "none"
       /\ loc.offset_h \in 0..(h - th)
       /\ loc.offset_w \in 0..(w - tw)
       /\ (h = th) => loc.offset_h = 0
       /\ (w = tw) => loc.offset_w = 0
       /\ loc.offset_h + th <= h
       /\ loc.offset_w + tw <= w
       /\ ret[2] = arg.label
       /\ ret[1].shape = <<th, tw>>
       /\ DOMAIN ret[1].px = DOMAIN arg.video.px
       /\ \E flip \in BOOLEAN :
            \A f \in DOMAIN arg.video.px :
              /\ DOMAIN ret[1].px[f] = Range0(th)
              /\ \A i \in Range0(th) :
                   /\ DOMAIN ret[1].px[f][i] = Range0(tw)
                   /\ \A j \in Range0(tw) :
                        ret[1].px[f][i][j] =
                          arg.video.px[f][loc.offset_h + i]
                            [IF flip THEN w - 1 - (loc.offset_w + j)
                             ELSE loc.offset_w + j]

C8_Witness ==
  /\ Called("random_crop")
  /\ pc = "returned"
  /\ len(arg.video.px) = 2
  /\ arg.video.shape = <<4, 4>>
  /\ arg.target_size = <<2, 3>>
  /\ loc.offset_h = 2
  /\ loc.offset_w = 1
  /\ ret[1].px[1][1][2] = arg.video.px[1][3][3]

(* C9: random_crop with a target equal to the frame size raises nothing
   and returns either the clip unchanged or the clip with every frame
   mirrored along the width axis, frame count and order unchanged, with
   the label passed through. *)
C9_FullSizeCropIsFlipOnly ==
  (Called("random_crop") /\ arg.target_size = arg.video.shape) =>
    LET w == arg.video.shape[2]
        mirrored ==
          [shape |-> arg.video.shape,
           px |-> [f \in DOMAIN arg.video.px |->
                     [i \in DOMAIN arg.video.px[f] |->
                        [j \in Range0(w) |-> arg.video.px[f][i][w - 1 - j]]]]]
    IN /\ pc = "returned"
       /\ exc = "none"
       /\ ret[1] \in {arg.video, mirrored}
       /\ ret[2] = arg.label

C9_Witness ==
  /\ Called("random_crop")
  /\ pc = "returned"
  /\ arg.target_size = arg.video.shape
  /\ arg.video.shape = <<2, 3>>
  /\ len(arg.video.px) = 2
  /\ ret[1] # arg.video
  /\ ret[1].px[1][1][0] = arg.video.px[1][1][2]

====
